---- MODULE Spec2Model ----
(***************************************************************************)
(* BedrockImageManipulation (src/src/index.ts): the request builder and    *)
(* response decoder around the Bedrock runtime client.                     *)
(*                                                                         *)
(* Conventions.  An optional JavaScript value is a sequence of length at   *)
(* most one: << >> is undefined, <<v>> is the value v.  A JavaScript       *)
(* object with optional keys is a function whose DOMAIN is the set of keys *)
(* present.  A template string is the sequence of its fragments, so that   *)
(* "prefix followed by the message" and "mentions the text" are            *)
(* expressible.  A base64 string is the sequence of its 6-bit digits.      *)
(***************************************************************************)
EXTENDS Integers, Sequences, FiniteSets, TLC

VARIABLES region, bedrock, pc, options, sent, response, returned, thrown,
          prevRegion

\* region, bedrock : this.region and this.bedrock of the instance
\* pc              : where the current generateImage call is
\*                   ("idle", "sending", "awaiting", "done")
\* options         : the argument of the current call
\* sent            : the (client, command) pairs handed to client.send by
\*                   the current call
\* response        : what the awaited send gave
\* returned, thrown: the outcome of the current call
\* prevRegion      : history, the effective region of the previous call
vars == <<region, bedrock, pc, options, sent, response, returned, thrown,
          prevRegion>>

(* ------------------------------ bounds -------------------------------- *)

\* Longest images array a modelled response carries.
MaxImages == 2

(* ------------------------------ helpers ------------------------------- *)

Undefined == << >>

Opt(S) == {Undefined} \cup {<<v>> : v \in S}

\* Destructuring default `x = d`: applies only when x is undefined.
Default(x, d) == IF x = Undefined THEN d ELSE x[1]

\* JavaScript truthiness of an optional string.
TruthyStr(x) == x # Undefined /\ x[1] # ""
\* Truthiness of an optional base64 string (sequence of digits).
TruthyB64(x) == x # Undefined /\ x[1] # << >>

(* ------------------------------ TaskType ------------------------------ *)

TaskType == {"TEXT_IMAGE", "INPAINTING", "OUTPAINTING", "BACKGROUND_REMOVAL",
             "COLOR_GUIDED_GENERATION"}

\* Fault variant: the OUTPAINTING case assigns the inpainting section.
SectionKeyCopied(taskType) ==
    CASE taskType = "TEXT_IMAGE"              -> "textToImageParams"
      [] taskType = "INPAINTING"              -> "inPaintingParams"
      [] taskType = "OUTPAINTING"             -> "inPaintingParams"
      [] taskType = "BACKGROUND_REMOVAL"      -> "backgroundRemovalParams"
      [] taskType = "COLOR_GUIDED_GENERATION" -> "colorGuidedGenerationParams"

\* The section key the switch assigns for each task kind.
SectionKey(taskType) ==
    CASE taskType = "TEXT_IMAGE"              -> "textToImageParams"
      [] taskType = "INPAINTING"              -> "inPaintingParams"
      [] taskType = "OUTPAINTING"             -> "outPaintingParams"
      [] taskType = "BACKGROUND_REMOVAL"      -> "backgroundRemovalParams"
      [] taskType = "COLOR_GUIDED_GENERATION" -> "colorGuidedGenerationParams"

(* ---------------------------- constructor ----------------------------- *)

DefaultRegion == "us-east-1"
DefaultModelId == "amazon.nova-canvas-v1:0"

\* new BedrockRuntimeClient({ region }): id 0 is the instance's client,
\* id 1 a client constructed inside a call.
BedrockRuntimeClient(r, id) == [region |-> r, id |-> id]

\* this.region = options.region || 'us-east-1'
ConstructorRegion(o) == IF TruthyStr(o) THEN o[1] ELSE DefaultRegion

(* --------------------------- request builder -------------------------- *)

EmptyImageConfig ==
    [width |-> Undefined, height |-> Undefined, quality |-> Undefined,
     cfgScale |-> Undefined, seed |-> Undefined, numberOfImages |-> Undefined]

\* const { width = 1024, ... } = imageConfig, with imageConfig = {} by default
ImageConfigOf(o) == Default(o.imageConfig, EmptyImageConfig)

Width(o)  == Default(ImageConfigOf(o).width, 1024)
Height(o) == Default(ImageConfigOf(o).height, 1024)

\* Fault variant: ...(seed && { seed }), which drops a seed of 0.
SeedSpreadTruthy(seed) ==
    IF seed # Undefined /\ seed[1] # 0 THEN {"seed"} ELSE {}

\* ...(seed !== undefined && { seed })
SeedSpread(seed) == IF seed # Undefined THEN {"seed"} ELSE {}

\* ...(width && { width }) and ...(height && { height }), on the defaulted value
DimensionSpread(key, value) == IF value # 0 THEN {key} ELSE {}

\* The imageGenerationConfig object literal with its conditional spreads.
ImageGenerationConfig(o) ==
    LET ic   == ImageConfigOf(o)
        keys == {"numberOfImages", "quality", "cfgScale"}
                  \cup SeedSpread(ic.seed)
                  \cup DimensionSpread("width", Width(o))
                  \cup DimensionSpread("height", Height(o))
    IN [k \in keys |->
          CASE k = "numberOfImages" -> Default(ic.numberOfImages, 1)
            [] k = "quality"        -> Default(ic.quality, "premium")
            [] k = "cfgScale"       -> Default(ic.cfgScale, 8)
            [] k = "seed"           -> ic.seed[1]
            [] k = "width"          -> Width(o)
            [] k = "height"         -> Height(o)]

\* The object literal each case of the switch assigns; values are optional.
TaskParams(o) ==
    CASE o.taskType = "TEXT_IMAGE" ->
           IF TruthyB64(o.conditionImage)
           THEN [text |-> o.prompt, negativeText |-> o.negativePrompt,
                 conditionImage |-> o.conditionImage,
                 controlMode |-> o.controlMode,
                 controlStrength |-> o.controlStrength]
           ELSE [text |-> o.prompt, negativeText |-> o.negativePrompt]
      [] o.taskType = "INPAINTING" ->
           [image |-> o.base64Image, maskImage |-> o.maskImage,
            maskPrompt |-> o.maskPrompt, text |-> o.prompt,
            negativeText |-> o.negativePrompt]
      [] o.taskType = "OUTPAINTING" ->
           [image |-> o.base64Image, maskImage |-> o.maskImage,
            maskPrompt |-> o.maskPrompt, text |-> o.prompt,
            negativeText |-> o.negativePrompt,
            outPaintingMode |-> IF TruthyStr(o.outPaintingMode)
                                THEN o.outPaintingMode ELSE <<"DEFAULT">>]
      [] o.taskType = "BACKGROUND_REMOVAL" ->
           [image |-> o.base64Image]
      [] o.taskType = "COLOR_GUIDED_GENERATION" ->
           [text |-> o.prompt, negativeText |-> o.negativePrompt,
            referenceImage |-> o.base64Image, colors |-> o.colorHexList]

\* JSON.stringify of an object literal: keys whose value is undefined are
\* dropped, the others carry the value.
JSONStringifyObject(obj) ==
    [k \in {j \in DOMAIN obj : obj[j] # Undefined} |-> obj[k][1]]

\* Fault variant: a switch without the default case.
SupportedAny(taskType) == TRUE

\* The switch: which task kinds reach `break` (the others hit `default`).
Supported(taskType) == taskType \in TaskType

\* JSON.stringify(requestBody): the envelope plus the section the matching
\* case assigned (no case matches an unrecognized kind).
RequestBody(o) ==
    LET keys == {"taskType", "imageGenerationConfig"}
                  \cup (IF o.taskType \in TaskType
                        THEN {SectionKey(o.taskType)} ELSE {})
    IN [k \in keys |->
          CASE k = "taskType"              -> o.taskType
            [] k = "imageGenerationConfig" -> ImageGenerationConfig(o)
            [] OTHER                       -> JSONStringifyObject(TaskParams(o))]

\* new InvokeModelCommand({ modelId, body, contentType, accept })
InvokeModelCommand(o) ==
    [modelId |-> Default(o.modelId, DefaultModelId),
     body |-> RequestBody(o),
     contentType |-> "application/json",
     accept |-> "application/json"]

\* region = this.region by default
EffectiveRegion(o, thisRegion) == Default(o.region, thisRegion)

\* Fault variant: the instance's client is used whatever the region.
SelectClientShared(o, thisRegion, thisBedrock) == thisBedrock

\* region === this.region ? this.bedrock : new BedrockRuntimeClient({ region })
SelectClient(o, thisRegion, thisBedrock) ==
    IF EffectiveRegion(o, thisRegion) = thisRegion
    THEN thisBedrock
    ELSE BedrockRuntimeClient(EffectiveRegion(o, thisRegion), 1)

(* ---------------------------- response decoder ------------------------ *)

NewError(message) == [isError |-> TRUE, message |-> message]

\* String(error) for a thrown value that is not an Error (a number here).
String(error) == <<ToString(error.value)>>

\* Buffer.from(s, 'base64'): four digits give three bytes; a trailing group
\* of three gives two bytes, of two gives one, a single digit gives none.
RECURSIVE Base64Decode(_)
Base64Decode(s) ==
    IF Len(s) < 2 THEN << >>
    ELSE LET b1 == (s[1] * 4 + (s[2] \div 16)) % 256
         IN IF Len(s) = 2 THEN <<b1>>
            ELSE LET b2 == ((s[2] % 16) * 16 + (s[3] \div 4)) % 256
                 IN IF Len(s) = 3 THEN <<b1, b2>>
                    ELSE <<b1, b2, (s[3] % 4) * 64 + s[4]>>
                           \o Base64Decode(SubSeq(s, 5, Len(s)))

\* Fault variant: only images.length is tested, not images[0].
HasImageNonEmptyArray(b) ==
    /\ b.images # Undefined
    /\ b.images[1] # << >>

\* the negation of: !responseBody.images || !responseBody.images[0]
HasImage(b) ==
    /\ b.images # Undefined
    /\ b.images[1] # << >>
    /\ b.images[1][1] # << >>

\* Fault variant: the image test comes before the error test.
HasErrorUnlessImage(b) == TruthyStr(b.error) /\ ~HasImage(b)

\* if (responseBody.error)
HasError(b) == TruthyStr(b.error)

\* Fault variant: the last image is taken instead of the first.
FirstImageLast(images) == images[Len(images)]

\* responseBody.images[0]
FirstImage(images) == images[1]

Throw(error) == [ok |-> FALSE, error |-> error]
Return(value) == [ok |-> TRUE, value |-> value]

\* The body of the try block, given what `await client.send(command)` gave.
TryBlock(o, r) ==
    IF r.kind = "rejected" THEN Throw(r.error)
    ELSE IF r.body = Undefined
    THEN Throw(NewError(<<"No response body received from model">>))
    ELSE LET b == r.body[1] IN
      IF b.syntax = "invalid"
      THEN Throw(NewError(<<"Unexpected token < in JSON at position 0">>))
      ELSE IF b.syntax = "null"
      THEN Throw(NewError(
             <<"Cannot read properties of null (reading 'error')">>))
      ELSE IF HasError(b)
      THEN Throw(NewError(<<"Model error: ", b.error[1]>>))
      ELSE IF ~HasImage(b)
      THEN Throw(NewError(<<"No image returned from model">>))
      ELSE Return([imageBytes |-> Base64Decode(FirstImage(b.images[1])),
                   base64Image |-> FirstImage(b.images[1]),
                   modelId |-> Default(o.modelId, DefaultModelId)])

\* Fault variant: error.message is read without the instanceof test.
CatchMessageOnly(error) ==
    NewError(<<"Image generation failed: ">>
               \o (IF error.isError THEN error.message ELSE <<"undefined">>))

\* The catch block: the error it throws.
Catch(error) ==
    NewError(<<"Image generation failed: ">>
               \o (IF error.isError THEN error.message ELSE String(error)))

\* Fault variant: the catch block sends the command again.
AfterCatchRetry == "sending"

\* Control after the catch block: its throw ends the call.
AfterCatch == "done"

\* The default case of the switch: the error it throws.
UnsupportedTaskType(taskType) ==
    NewError(<<"Unsupported taskType: ", taskType>>)

(* ------------------------------- inputs ------------------------------- *)

\* "TWFu" (the bytes of "Man") and "SGk" (the bytes of "Hi") as digits.
ImgA == <<19, 22, 5, 46>>
ImgB == <<18, 6, 36>>
EmptyString == << >>

Regions == {"us-east-1", "eu-west-1"}

\* What a caller may pass as taskType: the five kinds and one that is not.
TaskInputs == TaskType \cup {"BOGUS"}

BaseOptions ==
    [taskType |-> "TEXT_IMAGE", prompt |-> Undefined, modelId |-> Undefined,
     region |-> Undefined, imageConfig |-> Undefined,
     base64Image |-> Undefined, maskImage |-> Undefined,
     maskPrompt |-> Undefined, negativePrompt |-> Undefined,
     outPaintingMode |-> Undefined, conditionImage |-> Undefined,
     controlMode |-> Undefined, controlStrength |-> Undefined,
     colorHexList |-> Undefined]

\* imageConfig: absent, every combination of width/height/seed being absent,
\* zero or positive, and one with the remaining three fields set.
ConfigVariants ==
    {BaseOptions}
    \cup {[BaseOptions EXCEPT !.imageConfig =
             <<[EmptyImageConfig EXCEPT !.width = w, !.height = h, !.seed = s]>>] :
           w \in Opt({0, 512}), h \in Opt({0, 512}), s \in Opt({0, 100})}
    \cup {[BaseOptions EXCEPT !.imageConfig =
             <<[EmptyImageConfig EXCEPT !.quality = <<"standard">>,
                  !.cfgScale = <<5>>, !.numberOfImages = <<2>>]>>]}

\* Reference, mask and conditioning inputs.
ImageVariants ==
    {[BaseOptions EXCEPT !.base64Image = b, !.maskImage = mi,
        !.maskPrompt = mp, !.conditionImage = c,
        !.controlMode = IF c = Undefined THEN Undefined ELSE <<"CANNY_EDGE">>,
        !.controlStrength = IF c = Undefined THEN Undefined ELSE <<1>>] :
       b \in Opt({ImgA}), mi \in Opt({ImgB}), mp \in Opt({"Tree"}),
       c \in Opt({EmptyString, ImgB})}

\* Text inputs.
TextVariants ==
    {[BaseOptions EXCEPT !.prompt = p, !.negativePrompt = n,
        !.outPaintingMode = m, !.colorHexList = c] :
       p \in Opt({"A cat"}), n \in Opt({"forest"}),
       m \in Opt({"", "PRECISE"}), c \in Opt({<<"#5e17eb">>})}

\* Model and region selection.
TargetVariants ==
    {[BaseOptions EXCEPT !.modelId = m, !.region = r] :
       m \in Opt({"amazon.titan-image-generator-v2:0"}), r \in Opt(Regions)}

Inputs ==
    {[v EXCEPT !.taskType = t] :
       t \in TaskInputs,
       v \in ConfigVariants \cup ImageVariants \cup TextVariants
                \cup TargetVariants}

RECURSIVE SeqsUpTo(_, _)
SeqsUpTo(S, n) ==
    IF n = 0 THEN {<< >>}
    ELSE LET shorter == SeqsUpTo(S, n - 1)
         IN shorter \cup {Append(q, x) : q \in shorter, x \in S}

\* Decoded response bodies: not JSON, the JSON null, or an object with an
\* optional error and an optional images array.
Bodies ==
    {[syntax |-> "invalid"], [syntax |-> "null"]}
    \cup {[syntax |-> "object", error |-> e, images |-> i] :
           e \in Opt({"", "throttled"}),
           i \in Opt(SeqsUpTo({EmptyString, ImgA, ImgB}, MaxImages))}

\* What `await client.send(command)` gives: a rejection with an Error or with
\* a value that is not one, or a response with or without a body.
SendResults ==
    {[kind |-> "rejected", error |-> NewError(<<"socket hang up">>)],
     [kind |-> "rejected", error |-> [isError |-> FALSE, value |-> 503]]}
    \cup {[kind |-> "resolved", body |-> b] : b \in Opt(Bodies)}

(* ------------------------------- state -------------------------------- *)

opts == options[1]

Init ==
    /\ \E o \in Opt(Regions \cup {""}) :
         /\ region = ConstructorRegion(o)
         /\ bedrock = BedrockRuntimeClient(ConstructorRegion(o), 0)
    /\ pc = "idle"
    /\ options = Undefined
    /\ sent = << >>
    /\ response = Undefined
    /\ returned = Undefined
    /\ thrown = Undefined
    /\ prevRegion = Undefined

\* generateImage up to the command: destructuring, the switch, the command.
GenerateImage(o) ==
    /\ pc = "idle"
    /\ options' = <<o>>
    /\ IF Supported(o.taskType)
       THEN /\ pc' = "sending"
            /\ thrown' = Undefined
       ELSE /\ pc' = "done"
            /\ thrown' = <<UnsupportedTaskType(o.taskType)>>
    /\ UNCHANGED <<region, bedrock, sent, response, returned, prevRegion>>

\* client.send(command)
Send ==
    /\ pc = "sending"
    /\ sent' = Append(sent, [client |-> SelectClient(opts, region, bedrock),
                             command |-> InvokeModelCommand(opts)])
    /\ pc' = "awaiting"
    /\ UNCHANGED <<region, bedrock, options, response, returned, thrown,
                   prevRegion>>

\* The awaited send settles: the rest of the try block, or the catch block.
Receive(r) ==
    /\ pc = "awaiting"
    /\ response' = <<r>>
    /\ LET t == TryBlock(opts, r)
       IN IF t.ok
          THEN /\ returned' = <<t.value>>
               /\ thrown' = thrown
               /\ pc' = "done"
          ELSE /\ thrown' = <<Catch(t.error)>>
               /\ returned' = returned
               /\ pc' = AfterCatch
    /\ UNCHANGED <<region, bedrock, options, sent, prevRegion>>

\* The caller has the outcome; the instance is ready for its next call.
Complete ==
    /\ pc = "done"
    /\ pc' = "idle"
    /\ prevRegion' = <<EffectiveRegion(opts, region)>>
    /\ options' = Undefined
    /\ sent' = << >>
    /\ response' = Undefined
    /\ returned' = Undefined
    /\ thrown' = Undefined
    /\ UNCHANGED <<region, bedrock>>

Next ==
    \/ \E o \in Inputs : GenerateImage(o)
    \/ Send
    \/ \E r \in SendResults : Receive(r)
    \/ Complete

Spec == Init /\ [][Next]_vars

(* ----------------------------- properties ----------------------------- *)

Called == options # Undefined
Done == pc = "done"

Prefix == "Image generation failed: "

\* The caller supplied imageConfig.<f>.
Supplied(f) ==
    /\ opts.imageConfig # Undefined
    /\ opts.imageConfig[1][f] # Undefined

SuppliedValue(f) == opts.imageConfig[1][f][1]

\* The per-task section names of the wire format.
SectionNames ==
    {"textToImageParams", "inPaintingParams", "outPaintingParams",
     "backgroundRemovalParams", "colorGuidedGenerationParams"}

\* The response decoded to an object (it has a body that parsed to one).
ObjectResponse ==
    /\ response # Undefined
    /\ response[1].kind = "resolved"
    /\ response[1].body # Undefined
    /\ response[1].body[1].syntax = "object"

responseBody == response[1].body[1]

\* C1: a call whose taskType is not one of the five kinds fails with the
\* unsupported-task error and never invokes the client's send, whatever the
\* other inputs and the requested region are.
C1_InvalidTaskBeforeSend ==
    (Called /\ opts.taskType \notin
        {"TEXT_IMAGE", "INPAINTING", "OUTPAINTING", "BACKGROUND_REMOVAL",
         "COLOR_GUIDED_GENERATION"})
    => /\ Done
       /\ sent = << >>
       /\ returned = Undefined
       /\ thrown # Undefined
       /\ thrown[1].message = <<"Unsupported taskType: ", opts.taskType>>

C1_Witness ==
    /\ Called /\ Done
    /\ opts.taskType = "BOGUS"
    /\ opts.region # Undefined /\ opts.region[1] # region
    /\ thrown # Undefined /\ sent = << >>

\* C2: the body handed to the client has exactly one per-task section, the
\* one named by the task kind, and a taskType tag equal to the input's.
C2_ExactlyOneSection ==
    \A i \in DOMAIN sent :
      LET body == sent[i].command.body
          has  == DOMAIN body \cap SectionNames
      IN /\ body.taskType = opts.taskType
         /\ opts.taskType = "TEXT_IMAGE" => has = {"textToImageParams"}
         /\ opts.taskType = "INPAINTING" => has = {"inPaintingParams"}
         /\ opts.taskType = "OUTPAINTING" => has = {"outPaintingParams"}
         /\ opts.taskType = "BACKGROUND_REMOVAL"
              => has = {"backgroundRemovalParams"}
         /\ opts.taskType = "COLOR_GUIDED_GENERATION"
              => has = {"colorGuidedGenerationParams"}
         /\ Cardinality(has) = 1

C2_Witness ==
    /\ Len(sent) = 1
    /\ opts.taskType = "OUTPAINTING"
    /\ opts.maskPrompt # Undefined /\ opts.base64Image # Undefined
    /\ DOMAIN sent[1].command.body
         = {"taskType", "imageGenerationConfig", "outPaintingParams"}

\* C3 as stated: seed, width and height are keys of imageGenerationConfig
\* if and only if the caller supplied them, with the supplied value.
C3_KeyIffSupplied ==
    \A i \in DOMAIN sent :
      LET cfg == sent[i].command.body.imageGenerationConfig
      IN \A f \in {"seed", "width", "height"} :
           /\ (f \in DOMAIN cfg) <=> Supplied(f)
           /\ Supplied(f) => cfg[f] = SuppliedValue(f)

\* C3 amended: seed is a key if and only if the caller supplied it (0
\* included); width and height default to 1024 when omitted and are keys,
\* carrying that effective value, if and only if it is not 0.
C3_SeedIffSuppliedDimensionsDefaulted ==
    \A i \in DOMAIN sent :
      LET cfg == sent[i].command.body.imageGenerationConfig
      IN /\ ("seed" \in DOMAIN cfg) <=> Supplied("seed")
         /\ Supplied("seed") => cfg.seed = SuppliedValue("seed")
         /\ \A f \in {"width", "height"} :
              LET effective == IF Supplied(f) THEN SuppliedValue(f) ELSE 1024
              IN /\ (f \in DOMAIN cfg) <=> effective # 0
                 /\ effective # 0 => cfg[f] = effective

C3_Witness ==
    /\ Len(sent) = 1
    /\ Supplied("seed") /\ SuppliedValue("seed") = 0
    /\ ~Supplied("width")
    /\ Supplied("height") /\ SuppliedValue("height") = 0
    /\ LET cfg == sent[1].command.body.imageGenerationConfig
       IN /\ DOMAIN cfg = {"numberOfImages", "quality", "cfgScale", "seed",
                           "width"}
          /\ cfg.seed = 0 /\ cfg.width = 1024

\* C4: no inpainting or outpainting body that reaches the client carries
\* both a maskImage and a maskPrompt.
C4_MaskExclusive ==
    \A i \in DOMAIN sent :
      LET body == sent[i].command.body
      IN \A k \in {"inPaintingParams", "outPaintingParams"} :
           k \in DOMAIN body
             => ~({"maskImage", "maskPrompt"} \subseteq DOMAIN body[k])

\* C5 as stated: every error the call surfaces carries the
\* 'Image generation failed: ' prefix.
C5_EveryFailureWrapped ==
    (Done /\ thrown # Undefined) => Head(thrown[1].message) = Prefix

\* C5 amended: every failure of the send, of the decoding or of the
\* validation is surfaced as one error whose message is the prefix followed
\* by the original message (the string form of a thrown value that is not
\* an Error); the unsupported-task error alone is surfaced unwrapped.
C5_FailuresAfterSendWrapped ==
    (Done /\ thrown # Undefined) =>
      LET m == thrown[1].message IN
      IF response = Undefined
      THEN /\ opts.taskType \notin TaskType
           /\ m = <<"Unsupported taskType: ", opts.taskType>>
      ELSE
        /\ Head(m) = Prefix
        /\ thrown[1].isError
        /\ response[1].kind = "rejected" =>
             IF response[1].error.isError
             THEN m = <<Prefix>> \o response[1].error.message
             ELSE m = <<Prefix, "503">>
        /\ (response[1].kind = "resolved" /\ response[1].body = Undefined)
             => m = <<Prefix, "No response body received from model">>
        /\ (ObjectResponse /\ responseBody.error = <<"throttled">>)
             => m = <<Prefix, "Model error: ", "throttled">>
        /\ (ObjectResponse /\ responseBody.error # <<"throttled">>)
             => m = <<Prefix, "No image returned from model">>
        /\ (response[1].kind = "resolved" /\ response[1].body # Undefined
              /\ response[1].body[1].syntax # "object")
             => Len(m) = 2

C5_Witness ==
    /\ Done /\ thrown # Undefined /\ response # Undefined
    /\ response[1].kind = "rejected"
    /\ ~response[1].error.isError
    /\ thrown[1].message = <<Prefix, "503">>

\* The model identifier of the request.
RequestModelId ==
    IF opts.modelId = Undefined THEN "amazon.nova-canvas-v1:0"
    ELSE opts.modelId[1]

\* The returned result is the first image, its decoding and the request's
\* model identifier.
ReturnsFirstImage ==
    /\ returned # Undefined
    /\ thrown = Undefined
    /\ returned[1].base64Image = responseBody.images[1][1]
    /\ returned[1].imageBytes = Base64Decode(responseBody.images[1][1])
    /\ responseBody.images[1][1] = <<19, 22, 5, 46>>
         => returned[1].imageBytes = <<77, 97, 110>>
    /\ responseBody.images[1][1] = <<18, 6, 36>>
         => returned[1].imageBytes = <<72, 105>>
    /\ returned[1].modelId = RequestModelId

\* C6 as stated: a response object with no error field and a non-empty
\* images array gives a result made of the first element of images, its
\* base64 decoding and the request's model identifier.
C6_NonEmptyImagesReturned ==
    (Done /\ ObjectResponse /\ responseBody.error = Undefined
       /\ responseBody.images # Undefined /\ responseBody.images[1] # << >>)
    => ReturnsFirstImage

\* C6 amended: the same, when the first element of images is a non-empty
\* string.
C6_NonEmptyFirstImageReturned ==
    (Done /\ ObjectResponse /\ responseBody.error = Undefined
       /\ responseBody.images # Undefined /\ responseBody.images[1] # << >>
       /\ responseBody.images[1][1] # << >>)
    => ReturnsFirstImage

C6_Witness ==
    /\ Done /\ ObjectResponse
    /\ responseBody.error = Undefined
    /\ responseBody.images = << <<ImgA, ImgB>> >>
    /\ opts.modelId = <<"amazon.titan-image-generator-v2:0">>
    /\ returned # Undefined
    /\ returned[1].base64Image = ImgA
    /\ returned[1].modelId = "amazon.titan-image-generator-v2:0"

\* The message has the fragment t (every message contains the empty text).
Mentions(message, t) ==
    t = "" \/ \E j \in DOMAIN message : message[j] = t

\* The call returned nothing and failed with an error that mentions the
\* response's error text: the remote error, not the empty-result error,
\* also when the response has a non-empty images array.
FailsWithRemoteError ==
    /\ returned = Undefined
    /\ thrown # Undefined
    /\ Mentions(thrown[1].message, responseBody.error[1])
    /\ (responseBody.images # Undefined /\ responseBody.images[1] # << >>)
         => /\ Mentions(thrown[1].message, "Model error: ")
            /\ ~Mentions(thrown[1].message, "No image returned from model")

\* C7 as stated: a response object that carries an error field makes the
\* call fail with the remote error, images or not.
C7_ErrorFieldFails ==
    (Done /\ ObjectResponse /\ responseBody.error # Undefined)
    => FailsWithRemoteError

\* C7 amended: the same, when the error field is a non-empty string.
C7_NonEmptyErrorFieldFails ==
    (Done /\ ObjectResponse /\ responseBody.error # Undefined
       /\ responseBody.error[1] # "")
    => FailsWithRemoteError

C7_Witness ==
    /\ Done /\ ObjectResponse
    /\ responseBody.error = <<"throttled">>
    /\ responseBody.images = << <<ImgA>> >>
    /\ returned = Undefined
    /\ thrown # Undefined
    /\ thrown[1].message = <<Prefix, "Model error: ", "throttled">>

\* C8: a result is returned only for a response with a non-empty first
\* image, which it carries; a response object with no error field and an
\* absent or empty images array fails with 'No image returned from model'.
C8_ResultOnlyWithImage ==
    /\ returned # Undefined =>
         /\ ObjectResponse
         /\ responseBody.images # Undefined
         /\ responseBody.images[1] # << >>
         /\ returned[1].base64Image # << >>
         /\ returned[1].base64Image = responseBody.images[1][1]
         /\ returned[1].imageBytes # << >>
    /\ (Done /\ ObjectResponse /\ responseBody.error = Undefined
          /\ (responseBody.images = Undefined
                \/ responseBody.images[1] = << >>))
       => /\ returned = Undefined
          /\ thrown # Undefined
          /\ thrown[1].message = <<Prefix, "No image returned from model">>

C8_Witness ==
    /\ Done /\ ObjectResponse
    /\ responseBody.error = Undefined
    /\ responseBody.images = << << >> >>
    /\ returned = Undefined
    /\ thrown # Undefined

\* The region a call names, or the instance's when it names none.
CallRegion == IF opts.region # Undefined THEN opts.region[1] ELSE region

SentToCallRegion ==
    /\ bedrock.region = region
    /\ \A i \in DOMAIN sent :
         /\ sent[i].client.region = CallRegion
         /\ (sent[i].client = bedrock) <=> (CallRegion = region)

\* C9: every send goes through a client bound to the call's effective
\* region, the instance's client exactly when that is the instance's
\* region; no call changes the instance's region or its client.
C9_ClientBoundToCallRegion ==
    /\ []SentToCallRegion
    /\ [][region' = region /\ bedrock' = bedrock]_vars

\* A call sent through the instance's client right after a call to another
\* region.
C9_Witness ==
    /\ Len(sent) = 1
    /\ prevRegion # Undefined /\ prevRegion[1] # region
    /\ CallRegion = region
    /\ sent[1].client = bedrock
    /\ sent[1].client.region = region

\* C10: a call of a recognized kind invokes the client exactly once and
\* ends in exactly one outcome, whatever the send gave; a call of an
\* unrecognized kind invokes it zero times.
C10_OneSendOneOutcome ==
    /\ Len(sent) <= 1
    /\ ~Done => (returned = Undefined /\ thrown = Undefined)
    /\ Done =>
         /\ (returned # Undefined) # (thrown # Undefined)
         /\ Len(sent) = IF opts.taskType \in TaskType THEN 1 ELSE 0

C10_Witness ==
    /\ Done
    /\ Len(sent) = 1
    /\ response # Undefined /\ response[1].kind = "rejected"
    /\ thrown # Undefined /\ returned = Undefined

====
